---------------------------- MODULE Spec2Model ----------------------------
(***************************************************************************)
(* Session and token lifecycle of the temsaas backend.                     *)
(*                                                                         *)
(*   utils/security.py   create_session_tokens, verify_token,              *)
(*                       invalidate_session, get_current_user              *)
(*   routers/auth.py     register, login, refresh_token, logout            *)
(*   routers/data.py     get_user_info (a protected route)                 *)
(*   main.py             cleanup_expired_sessions (the sweeper)            *)
(*                                                                         *)
(* The clock counts ticks of 1/Res second.  datetime values (the fields    *)
(* of a session document) keep the tick; the time claims of a JWT are      *)
(* whole seconds, as PyJWT encodes them.                                   *)
(***************************************************************************)
EXTENDS Integers, Sequences, FiniteSets, TLC

\* ------------------------------------------------------------- bounds
\* Clock ticks per second.
Res == 2
\* Number of times the clock advances in a run.
MaxTicks == 2
\* Number of create_session_tokens calls in a run.
MaxSessions == 2
\* Number of successful refreshes in a run.
MaxRefreshes == 2

\* ------------------------------------------------- program constants
\* timedelta(hours=1), in seconds
ACCESS_TTL == 3600
\* timedelta(days=30), in seconds
REFRESH_TTL == 2592000
\* asyncio.sleep(3600) after a successful purge
SWEEP_INTERVAL == 3600
\* asyncio.sleep(60) after a failed purge
SWEEP_RETRY == 60

JWT_SECRET == "JWT_SECRET"
OtherSecret == "other-secret"

\* The accounts that may register (the _id the store gives each), the email
\* each registers with, and the passwords a login request may carry.
Users == {"u1"}
Email(u) == IF u = "u1" THEN "a@x.com" ELSE "b@x.com"
Passwords == {"pw", "wrong"}

\* ------------------------------------------------------------- state
VARIABLES
    now,        \* datetime.utcnow(), in ticks
    ticks,      \* how often the clock has advanced
    users,      \* db.users: user id -> document, or NoDoc
    sessions,   \* db.sessions: the documents, in insertion order
    uuids,      \* number of uuid4() values drawn so far
    issued,     \* every token a response has handed to a client
    created,    \* history: one record per create_session_tokens call that returned
    invalidated,\* history: the ids for which invalidate_session has returned
    minted,     \* history: one record per successful refresh, in order
    sweeper,    \* cleanup_expired_sessions: where its loop stands
    storeUp,    \* whether the store answers the sweeper
    inflight    \* a refresh request between its store calls

vars == <<now, ticks, users, sessions, uuids, issued, created, invalidated, minted,
          sweeper, storeUp, inflight>>

NoDoc == [email |-> "", email_verified |-> FALSE, password |-> "", exists |-> FALSE]
\* What db.users holds for an _id whose document was removed: no document, and
\* the store gives the _id to no later insert.
Gone == [email |-> "", email_verified |-> FALSE, password |-> "removed", exists |-> FALSE]

\* ------------------------------------------------------ time and JWT
\* PyJWT encodes a datetime claim as timegm(utctimetuple()): whole seconds.
Secs(t) == t \div Res
Seconds(n) == n * Res

\* payload.get(claim)
NoClaim == "None"
Get(payload, claim) == IF claim \in DOMAIN payload THEN payload[claim] ELSE NoClaim

\* jwt.encode(payload, key): the token is the signed payload, its datetime
\* claims turned into whole seconds.
EncodeClaim(claim, value) == IF claim \in {"exp", "iat", "nbf"} THEN Secs(value) ELSE value
jwt_encode(payload, key) ==
    [key |-> key, payload |-> [c \in DOMAIN payload |-> EncodeClaim(c, payload[c])]]

\* A cookie that is absent (request.cookies.get gives None) and a string that is no JWT.
NoToken == [key |-> "", payload |-> [type |-> "absent"]]
Garbage == [key |-> "garbage", payload |-> [type |-> "garbage"]]

\* A decode that does not verify the signature
jwt_decode_unverified(token, t) ==
    IF "exp" \in DOMAIN token.payload /\ token.payload.exp <= Secs(t)
    THEN [ok |-> FALSE, error |-> "ExpiredSignatureError", payload |-> token.payload]
    ELSE [ok |-> TRUE, error |-> "", payload |-> token.payload]

\* jwt.decode(token, JWT_SECRET, algorithms=[JWT_ALGORITHM]) at clock t:
\* the signature, then nbf, then exp (expired when exp <= now).
jwt_decode(token, t) ==
    IF token.key # JWT_SECRET
    THEN [ok |-> FALSE, error |-> "InvalidTokenError", payload |-> token.payload]
    ELSE IF "iat" \in DOMAIN token.payload /\ token.payload.iat > Secs(t)
    THEN [ok |-> FALSE, error |-> "InvalidTokenError", payload |-> token.payload]
    ELSE IF "nbf" \in DOMAIN token.payload /\ token.payload.nbf > Secs(t)
    THEN [ok |-> FALSE, error |-> "InvalidTokenError", payload |-> token.payload]
    ELSE IF "exp" \in DOMAIN token.payload /\ token.payload.exp <= Secs(t)
    THEN [ok |-> FALSE, error |-> "ExpiredSignatureError", payload |-> token.payload]
    ELSE [ok |-> TRUE, error |-> "", payload |-> token.payload]

\* ------------------------------------------------- the sessions store
\* Indices of the documents matching {"invalidate_id": id}
Matching(S, id) == {i \in 1..Len(S) : S[i].invalidate_id = id}
First(I) == CHOOSE i \in I : \A j \in I : i <= j
Remove(S, i) == [j \in 1..(Len(S) - 1) |-> IF j < i THEN S[j] ELSE S[j + 1]]

\* db.sessions.find_one({"invalidate_id": id}): a set holding the first match, or empty
find_one(S, id) == IF Matching(S, id) = {} THEN {} ELSE {S[First(Matching(S, id))]}

\* db.sessions.insert_one(doc)
insert_one(S, doc) == Append(S, doc)

\* update_one with upsert=True: without a match, a document is inserted
update_one_upsert(S, id, t) ==
    IF Matching(S, id) = {}
    THEN Append(S, [invalidate_id |-> id, user_id |-> "", created_at |-> 0,
                    expires_at |-> 0, last_used |-> t, is_active |-> FALSE])
    ELSE [S EXCEPT ![First(Matching(S, id))].last_used = t]

\* An update that also slides the session's deadline
update_one_sliding(S, id, t) ==
    IF Matching(S, id) = {} THEN S
    ELSE [S EXCEPT ![First(Matching(S, id))].last_used = t,
                   ![First(Matching(S, id))].expires_at = t + Seconds(REFRESH_TTL)]

\* An update_one whose $set stamps created_at along with last_used
update_one_restamp(S, id, t) ==
    IF Matching(S, id) = {} THEN S
    ELSE [S EXCEPT ![First(Matching(S, id))].last_used = t,
                   ![First(Matching(S, id))].created_at = t]

\* db.sessions.update_one({"invalidate_id": id}, {"$set": {"last_used": t}}): no upsert
update_one(S, id, t) ==
    IF Matching(S, id) = {} THEN S
    ELSE [S EXCEPT ![First(Matching(S, id))].last_used = t]

\* db.sessions.delete_one({"invalidate_id": id})
delete_one(S, id) ==
    IF Matching(S, id) = {} THEN S ELSE Remove(S, First(Matching(S, id)))

\* A delete_many whose filter is $lte: it takes the document expiring right now
delete_many_inclusive(S, t) == SelectSeq(S, LAMBDA d : ~(d.expires_at <= t))

\* delete_many with the comparison reversed ($gt for $lt)
delete_many_reversed(S, t) == SelectSeq(S, LAMBDA d : d.expires_at < t)

\* delete_one in the place of delete_many: only the first expired document goes
delete_many_first(S, t) ==
    LET expired == {i \in 1..Len(S) : S[i].expires_at < t}
    IN  IF expired = {} THEN S ELSE Remove(S, First(expired))

\* db.sessions.delete_many({"expires_at": {"$lt": t}})
delete_many(S, t) == SelectSeq(S, LAMBDA d : ~(d.expires_at < t))


\* ------------------------------------------------------ the users store
\* db.users.find_one({"email": email}): the ids of the matching documents
UsersByEmail(U, email) == {u \in Users : U[u].exists /\ U[u].email = email}

\* verify_password(plain, stored_hash): bcrypt.checkpw against the stored hash
get_password_hash(password) == <<"bcrypt", password>>
verify_password(plain, stored_hash) == stored_hash = get_password_hash(plain)

\* ------------------------------------------------------ utils/security.py
\* uuid.uuid4(): the n-th value drawn is a value never drawn before
uuid4(n) == n

\* A store call raises when it is the handler's failAt-th store call (0: none does).
Raises(failAt, call) == failAt = call

\* The outcome of a call that raised: an HTTPException (401, 404, ...) or an
\* exception that is none (500).
Raise(status, detail, S) ==
    [status |-> status, detail |-> detail, payload |-> [type |-> "none"], tokens |-> {}, sessions |-> S]

\* The subject claim filled with the user's id instead of the email.
AccessClaimsSubId(user_id, email, exp, id, jti, iat, nbf) ==
    [user_id |-> user_id, sub |-> user_id, exp |-> exp, type |-> "access",
     invalidate_id |-> id, jti |-> jti, iat |-> iat, nbf |-> nbf]

\* The claims of the access token (lines 97-106) and of the refresh token (line
\* 113) of create_session_tokens, and its session_data (lines 118-127)
AccessClaims(user_id, email, exp, id, jti, iat, nbf) ==
    [user_id |-> user_id, sub |-> email, exp |-> exp, type |-> "access",
     invalidate_id |-> id, jti |-> jti, iat |-> iat, nbf |-> nbf]
RefreshClaims(user_id, exp, id) ==
    [user_id |-> user_id, exp |-> exp, type |-> "refresh", invalidate_id |-> id]
SessionData(id, user_id, created_at, expires_at, last_used) ==
    [invalidate_id |-> id, user_id |-> user_id, created_at |-> created_at,
     expires_at |-> expires_at, last_used |-> last_used, is_active |-> TRUE]

\* An insert_one wrapped in a handler that swallows the error: the tokens are
\* returned although no document was stored.
CreateResultSwallowed(S, session_data, access_token, refresh_token, insertOk) ==
    [status |-> 200, detail |-> "", payload |-> access_token.payload,
     tokens |-> {access_token, refresh_token},
     sessions |-> IF insertOk THEN Append(S, session_data) ELSE S]

\* The end of create_session_tokens: db.sessions.insert_one(session_data), then
\* return access_token, refresh_token. An insert that raises ends the call.
CreateResult(S, session_data, access_token, refresh_token, insertOk) ==
    IF ~insertOk
    THEN Raise(500, "insert_one raised", S)
    ELSE [status |-> 200, detail |-> "", payload |-> access_token.payload,
          tokens |-> {access_token, refresh_token}, sessions |-> insert_one(S, session_data)]

\* A create_session_tokens that stores the access token's expiry as expires_at
create_session_tokens_access_expiry(user_id, email, S, n, clock, insertOk) ==
    LET invalidate_id   == uuid4(n + 1)
        access_expires  == clock[1] + Seconds(ACCESS_TTL)
        access_token    == jwt_encode(AccessClaims(user_id, email, access_expires, invalidate_id,
                                                   uuid4(n + 2), clock[2], clock[3]), JWT_SECRET)
        refresh_expires == clock[4] + Seconds(REFRESH_TTL)
        refresh_token   == jwt_encode(RefreshClaims(user_id, refresh_expires, invalidate_id), JWT_SECRET)
        session_data    == SessionData(invalidate_id, user_id, clock[5], access_expires, clock[6])
    IN  CreateResult(S, session_data, access_token, refresh_token, insertOk)

\* create_session_tokens(user_id, email, request) on the collection S. n is the
\* number of uuids drawn before the call; clock[1..6] are the six readings of
\* datetime.utcnow(), in the order of lines 95, 104, 105, 111, 121 and 123;
\* insertOk says whether insert_one returns.
create_session_tokens(user_id, email, S, n, clock, insertOk) ==
    LET invalidate_id   == uuid4(n + 1)
        access_expires  == clock[1] + Seconds(ACCESS_TTL)
        access_token    == jwt_encode(AccessClaims(user_id, email, access_expires, invalidate_id,
                                                   uuid4(n + 2), clock[2], clock[3]), JWT_SECRET)
        refresh_expires == clock[4] + Seconds(REFRESH_TTL)
        refresh_token   == jwt_encode(RefreshClaims(user_id, refresh_expires, invalidate_id), JWT_SECRET)
        session_data    == SessionData(invalidate_id, user_id, clock[5], refresh_expires, clock[6])
    IN  CreateResult(S, session_data, access_token, refresh_token, insertOk)

\* verify_token without the comparison of the type claim
verify_token_anykind(token, token_type, S, t, findOk, updateOk) ==
    LET d  == jwt_decode(token, t)
        id == Get(d.payload, "invalidate_id")
    IN  IF ~d.ok /\ d.error = "ExpiredSignatureError" THEN Raise(401, "Token has expired", S)
        ELSE IF ~d.ok THEN Raise(401, "Invalid token", S)
        ELSE IF ~findOk THEN Raise(500, "find_one raised", S)
        ELSE IF find_one(S, id) = {} THEN Raise(401, "Invalid session", S)
        ELSE IF ~updateOk THEN Raise(500, "update_one raised", S)
        ELSE [status |-> 200, detail |-> "", payload |-> d.payload, tokens |-> {},
              sessions |-> update_one(S, id, t)]

\* verify_token(token, token_type) at clock t; findOk and updateOk say whether
\* find_one and update_one return.
verify_token(token, token_type, S, t, findOk, updateOk) ==
    LET d  == jwt_decode(token, t)
        id == Get(d.payload, "invalidate_id")
    IN  IF ~d.ok /\ d.error = "ExpiredSignatureError" THEN Raise(401, "Token has expired", S)
        ELSE IF ~d.ok THEN Raise(401, "Invalid token", S)
        ELSE IF Get(d.payload, "type") # token_type THEN Raise(401, "Invalid token type", S)
        ELSE IF ~findOk THEN Raise(500, "find_one raised", S)
        ELSE IF find_one(S, id) = {} THEN Raise(401, "Invalid session", S)
        ELSE IF ~updateOk THEN Raise(500, "update_one raised", S)
        ELSE [status |-> 200, detail |-> "", payload |-> d.payload, tokens |-> {},
              sessions |-> update_one(S, id, t)]

\* A logout that never reaches the store: the document stays.
invalidate_session_keeps(S, invalidate_id) == S

\* A delete_one with an empty filter: the first document goes, whatever its id.
invalidate_session_any(S, invalidate_id) == IF S = <<>> THEN S ELSE Tail(S)

\* A delete_many by the user of the session: every session of that user goes
invalidate_session_user(S, invalidate_id) ==
    SelectSeq(S, LAMBDA d : \A i \in Matching(S, invalidate_id) : d.user_id # S[i].user_id)

\* invalidate_session(invalidate_id)
invalidate_session(S, invalidate_id) == delete_one(S, invalidate_id)

\* get_current_user(request): the access_token cookie, verified as kind access
get_current_user(cookie, S, t, findOk, updateOk) ==
    IF cookie = NoToken THEN Raise(401, "Not authenticated", S)
    ELSE verify_token(cookie, "access", S, t, findOk, updateOk)

\* ------------------------------------------------------ routers/auth.py
\* The claims of the access token a refresh mints at clock t
\* Refresh variants: one that draws a new id for the minted token, one that
\* sets exp to the lifetime alone, without the clock.
RefreshedClaimsNewId(user_id, email, t, invalidate_id) ==
    [user_id |-> user_id, sub |-> email, exp |-> t + Seconds(ACCESS_TTL), type |-> "access",
     invalidate_id |-> invalidate_id + 1]
RefreshedClaimsNoClock(user_id, email, t, invalidate_id) ==
    [user_id |-> user_id, sub |-> email, exp |-> Seconds(ACCESS_TTL), type |-> "access",
     invalidate_id |-> invalidate_id]

RefreshedClaims(user_id, email, t, invalidate_id) ==
    [user_id |-> user_id, sub |-> email, exp |-> t + Seconds(ACCESS_TTL), type |-> "access",
     invalidate_id |-> invalidate_id]

\* A refresh that takes the subject from what was known at registration
\* instead of the user document it has just read
refresh_token_stale(cookie, S, U, t, failAt) ==
    IF cookie = NoToken THEN Raise(401, "No refresh token", S)
    ELSE LET v == verify_token(cookie, "refresh", S, t, ~Raises(failAt, 1), ~Raises(failAt, 2))
             user_id       == v.payload.user_id
             invalidate_id == Get(v.payload, "invalidate_id")
             access_token  == jwt_encode(RefreshedClaims(user_id, Email(user_id), t, invalidate_id),
                                         JWT_SECRET)
         IN  IF v.status # 200 THEN Raise(401, "Invalid refresh token", v.sessions)
             ELSE IF Raises(failAt, 3) THEN Raise(401, "Invalid refresh token", v.sessions)
             ELSE IF ~U[user_id].exists THEN Raise(401, "Invalid refresh token", v.sessions)
             ELSE [status |-> 200, detail |-> "Token refreshed successfully",
                   payload |-> access_token.payload, tokens |-> {access_token, cookie},
                   sessions |-> v.sessions]

\* refresh_token(response, request): the refresh_token cookie; store calls 1 and 2
\* are verify_token's, call 3 is db.users.find_one({"_id": ObjectId(user_id)}).
\* Every exception of the try block, the 404 included, ends in the same 401.
refresh_token(cookie, S, U, t, failAt) ==
    IF cookie = NoToken THEN Raise(401, "No refresh token", S)
    ELSE LET v == verify_token(cookie, "refresh", S, t, ~Raises(failAt, 1), ~Raises(failAt, 2))
             user_id       == v.payload.user_id
             invalidate_id == Get(v.payload, "invalidate_id")
             access_token  == jwt_encode(RefreshedClaims(user_id, U[user_id].email, t, invalidate_id),
                                         JWT_SECRET)
         IN  IF v.status # 200 THEN Raise(401, "Invalid refresh token", v.sessions)
             ELSE IF Raises(failAt, 3) THEN Raise(401, "Invalid refresh token", v.sessions)
             ELSE IF ~U[user_id].exists THEN Raise(401, "Invalid refresh token", v.sessions)
             ELSE [status |-> 200, detail |-> "Token refreshed successfully",
                   payload |-> access_token.payload, tokens |-> {access_token, cookie},
                   sessions |-> v.sessions]

\* The session looked up by the token's own id, jti, instead of invalidate_id.
LogoutTargetJti(payload) ==
    IF "jti" \in DOMAIN payload THEN {payload.jti} ELSE {}

\* invalidate_id = payload.get("invalidate_id") in logout: a set holding the id, or empty
LogoutTarget(payload) ==
    IF "invalidate_id" \in DOMAIN payload THEN {payload.invalidate_id} ELSE {}

\* logout(response, request): the access_token cookie, decoded without a look at
\* its type; store call 1 is invalidate_session's delete_one. done holds the id
\* for which invalidate_session returned.
logout(cookie, S, t, failAt) ==
    LET d  == jwt_decode(cookie, t)
        id == LogoutTarget(d.payload)
        ok == [status |-> 200, detail |-> "Logged out successfully", sessions |-> S,
               done |-> {}, cleared |-> TRUE]
    IN  IF cookie = NoToken THEN ok
        ELSE IF ~d.ok THEN ok
        ELSE IF id = {} THEN ok
        ELSE IF Raises(failAt, 1)
        THEN [status |-> 500, detail |-> "delete_one raised", sessions |-> S,
              done |-> {}, cleared |-> FALSE]
        ELSE [ok EXCEPT !.sessions = invalidate_session(S, First(id)), !.done = id]

\* ------------------------------------------------------------ requests
\* What a client may send as a cookie: a token it was given, one it signed
\* itself with another secret, a string that is no token, or nothing.
Forge(token) == [token EXCEPT !.key = OtherSecret]
Presentable == issued \cup {Forge(tk) : tk \in issued} \cup {NoToken, Garbage}

\* The six readings of the clock in one create_session_tokens call that starts
\* at tick t.
Readings(t) == [i \in 1..6 |-> t]

\* What the history keeps of a create_session_tokens call that started at tick
\* t and returned r
CreatedRecord(r, user_id, email, t) ==
    [user_id |-> user_id, email |-> email, invalidate_id |-> r.payload.invalidate_id,
     at |-> t, expires_at |-> r.sessions[Len(r.sessions)].expires_at]

\* ------------------------------------------------------------- actions
\* cleanup_expired_sessions as lifespan creates it: about to purge. pc is
\* "purge" before delete_many and "sleep" inside asyncio.sleep(interval);
\* failed says whether the last purge raised.
SweeperStart == [pc |-> "purge", interval |-> 0, failed |-> FALSE]
\* No refresh request is between its store calls
Idle == [pc |-> "idle", cookie |-> NoToken, status |-> 0, raced |-> FALSE]

Init ==
    /\ now = 0
    /\ ticks = 0
    /\ users = [u \in Users |-> NoDoc]
    /\ sessions = <<>>
    /\ uuids = 0
    /\ issued = {}
    /\ created = {}
    /\ invalidated = {}
    /\ minted = <<>>
    /\ sweeper = SweeperStart
    /\ storeUp = TRUE
    /\ inflight = Idle

\* The clock advances: by a tick, by a second, by the access lifetime, or to
\* one tick short of the refresh lifetime.
Jumps == {1, Seconds(1), Seconds(ACCESS_TTL), Seconds(REFRESH_TTL) - 1}

Tick(d) ==
    /\ ticks < MaxTicks
    /\ now' = now + d
    /\ ticks' = ticks + 1
    /\ UNCHANGED <<users, sessions, uuids, issued, created, invalidated, minted,
                 sweeper, storeUp, inflight>>

\* create_user_response(user, request), the tail of register and login
CreateUserResponse(u, U, insertOk) ==
    LET r == create_session_tokens(u, U[u].email, sessions, uuids, Readings(now), insertOk)
    IN  /\ uuids + 2 <= 2 * MaxSessions
        /\ users' = U
        /\ sessions' = r.sessions
        /\ uuids' = uuids + 2
        /\ issued' = issued \cup r.tokens
        /\ created' = IF r.status = 200 THEN created \cup {CreatedRecord(r, u, U[u].email, now)} ELSE created
        /\ UNCHANGED <<now, ticks, invalidated, minted,
                 sweeper, storeUp, inflight>>

\* A request that ends with an error before it has changed anything. It is a
\* stuttering step, which Spec allows with or without Next: Next leaves it out.
Refuse(status, detail) == FALSE /\ UNCHANGED vars

\* POST /auth/users: store call 1 is users.find_one, 2 users.insert_one,
\* 3 sessions.insert_one
Register(u, failAt) ==
    LET new_user == [email |-> Email(u), email_verified |-> FALSE,
                     password |-> get_password_hash("pw"), exists |-> TRUE]
    IN  IF Raises(failAt, 1) THEN Refuse(500, "find_one raised")
        ELSE IF UsersByEmail(users, Email(u)) # {}
        THEN Refuse(400, "Email already registered")
        ELSE IF Raises(failAt, 2) THEN Refuse(500, "insert_one raised")
        ELSE IF users[u] # NoDoc THEN Refuse(0, "insert_one gives a fresh _id, and u is not one")
        ELSE CreateUserResponse(u, [users EXCEPT ![u] = new_user], ~Raises(failAt, 3))

\* PUT /auth/users/email/verify, with the token mailed to u
VerifyEmail(u) ==
    /\ users[u].exists
    /\ ~users[u].email_verified
    /\ users' = [users EXCEPT ![u].email_verified = TRUE]
    /\ UNCHANGED <<now, ticks, sessions, uuids, issued, created, invalidated, minted,
                 sweeper, storeUp, inflight>>

\* login without the email_verified test of auth.py:80-81
LoginUnverified(u, password, failAt) ==
    IF Raises(failAt, 1) THEN Refuse(500, "find_one raised")
    ELSE IF UsersByEmail(users, Email(u)) = {} \/ ~verify_password(password, users[u].password)
    THEN Refuse(400, "Incorrect email or password")
    ELSE CreateUserResponse(u, users, ~Raises(failAt, 2))

\* POST /auth/sessions: store call 1 is users.find_one, 2 sessions.insert_one
Login(u, password, failAt) ==
    IF Raises(failAt, 1) THEN Refuse(500, "find_one raised")
    ELSE IF UsersByEmail(users, Email(u)) = {} \/ ~verify_password(password, users[u].password)
    THEN Refuse(400, "Incorrect email or password")
    ELSE IF ~users[u].email_verified THEN Refuse(403, "Email not verified")
    ELSE CreateUserResponse(u, users, ~Raises(failAt, 2))

\* GET /data/users/me, a route that depends on get_current_user: store calls 1
\* and 2 are verify_token's, call 3 is users.find_one({"email": current_user})
get_user_info(cookie, S, U, t, failAt) ==
    LET r   == get_current_user(cookie, S, t, ~Raises(failAt, 1), ~Raises(failAt, 2))
        sub == Get(r.payload, "sub")
    IN  IF r.status # 200 THEN r
        ELSE IF Raises(failAt, 3) THEN Raise(500, "find_one raised", r.sessions)
        ELSE IF UsersByEmail(U, sub) = {} THEN Raise(404, "User not found", r.sessions)
        ELSE r

GetUserInfo(cookie, failAt) ==
    LET r == get_user_info(cookie, sessions, users, now, failAt)
    IN  /\ r.sessions # sessions
        /\ sessions' = r.sessions
        /\ UNCHANGED <<now, ticks, users, uuids, issued, created, invalidated, minted,
                 sweeper, storeUp, inflight>>

\* POST /auth/sessions/refresh
Refresh(cookie, failAt) ==
    LET r == refresh_token(cookie, sessions, users, now, failAt)
    IN  /\ r.status = 200 => Len(minted) < MaxRefreshes
        /\ r.status = 200 \/ r.sessions # sessions
        /\ sessions' = r.sessions
        /\ issued' = issued \cup r.tokens
        /\ minted' = IF r.status = 200
                     THEN Append(minted, [refresh |-> cookie, at |-> now,
                                          access |-> CHOOSE a \in r.tokens : a.payload = r.payload])
                     ELSE minted
        /\ UNCHANGED <<now, ticks, users, uuids, created, invalidated,
                 sweeper, storeUp, inflight>>

\* DELETE /auth/sessions
Logout(cookie, failAt) ==
    LET r == logout(cookie, sessions, now, failAt)
    IN  /\ r.done # {}
        /\ sessions' = r.sessions
        /\ invalidated' = invalidated \cup r.done
        /\ UNCHANGED <<now, ticks, users, uuids, issued, created, minted,
                 sweeper, storeUp, inflight>>

\* One round of cleanup_expired_sessions
Sweep(deleteOk) ==
    /\ deleteOk /\ delete_many(sessions, now) # sessions
    /\ sessions' = IF deleteOk THEN delete_many(sessions, now) ELSE sessions
    /\ UNCHANGED <<now, ticks, users, uuids, issued, created, invalidated, minted,
                 sweeper, storeUp, inflight>>

Next ==
    \/ \E d \in Jumps : Tick(d)
    \/ \E u \in Users, failAt \in 0..3 : Register(u, failAt)
    \/ \E u \in Users : VerifyEmail(u)
    \/ \E u \in Users, pw \in Passwords, failAt \in 0..2 : Login(u, pw, failAt)
    \/ \E cookie \in Presentable, failAt \in 0..3 : GetUserInfo(cookie, failAt)
    \/ \E cookie \in Presentable, failAt \in 0..3 : Refresh(cookie, failAt)
    \/ \E cookie \in Presentable, failAt \in 0..1 : Logout(cookie, failAt)
    \/ \E deleteOk \in BOOLEAN : Sweep(deleteOk)

Spec == Init /\ [][Next]_vars

\* --------------------------------------- the account store as a collaborator
\* The account store is shared with whatever else administers accounts: a
\* user document may disappear while tokens issued for it are still around.
RemoveAccount(u) ==
    /\ users[u].exists
    /\ users' = [users EXCEPT ![u] = Gone]
    /\ UNCHANGED <<now, ticks, sessions, uuids, issued, created, invalidated, minted,
                 sweeper, storeUp, inflight>>

NextAccounts ==
    \/ Next
    \/ \E u \in Users : RemoveAccount(u)

SpecAccounts == Init /\ [][NextAccounts]_vars

\* The email of a user document may be changed by whatever else administers
\* accounts, while the sessions created for it go on.
NewEmail(u) == "new-" \o Email(u)

ChangeEmail(u) ==
    /\ users[u].exists
    /\ users[u].email = Email(u)
    /\ users' = [users EXCEPT ![u].email = NewEmail(u)]
    /\ UNCHANGED <<now, ticks, sessions, uuids, issued, created, invalidated, minted,
                   sweeper, storeUp, inflight>>

NextEmails ==
    \/ Next
    \/ \E u \in Users : ChangeEmail(u)

SpecEmails == Init /\ [][NextEmails]_vars

\* ------------------------------------------------------ routers/password.py
\* db.users.update_one({"email": email}, {"$set": {"password": hash}})
SetPassword(U, email, hash) ==
    [u \in Users |-> IF u \in UsersByEmail(U, email) THEN [U[u] EXCEPT !.password = hash]
                     ELSE U[u]]

\* The outcome of a password route: what it answers and what the two
\* collections hold afterwards
PasswordResult(status, detail, S, U) ==
    [status |-> status, detail |-> detail, sessions |-> S, users |-> U]

\* A change_password that ends every session of the user along with the change
change_password_revoking(cookie, old_password, new_password, S, U, t, failAt) ==
    LET r   == get_current_user(cookie, S, t, ~Raises(failAt, 1), ~Raises(failAt, 2))
        sub == Get(r.payload, "sub")
    IN  IF r.status # 200 THEN PasswordResult(r.status, r.detail, r.sessions, U)
        ELSE IF Raises(failAt, 3) THEN PasswordResult(500, "find_one raised", r.sessions, U)
        ELSE IF UsersByEmail(U, sub) = {} THEN PasswordResult(404, "User not found", r.sessions, U)
        ELSE IF \E u \in UsersByEmail(U, sub) : ~verify_password(old_password, U[u].password)
        THEN PasswordResult(400, "Incorrect password", r.sessions, U)
        ELSE IF Raises(failAt, 4) THEN PasswordResult(500, "update_one raised", r.sessions, U)
        ELSE PasswordResult(200, "Password changed successfully",
                            SelectSeq(r.sessions, LAMBDA d : d.user_id \notin UsersByEmail(U, sub)),
                            SetPassword(U, sub, get_password_hash(new_password)))

\* change_password(user_data, current_user = Depends(get_current_user)): store
\* calls 1 and 2 are verify_token's, call 3 is users.find_one({"email":
\* current_user}), call 4 users.update_one. Every user document of the model
\* has a password field.
change_password(cookie, old_password, new_password, S, U, t, failAt) ==
    LET r   == get_current_user(cookie, S, t, ~Raises(failAt, 1), ~Raises(failAt, 2))
        sub == Get(r.payload, "sub")
    IN  IF r.status # 200 THEN PasswordResult(r.status, r.detail, r.sessions, U)
        ELSE IF Raises(failAt, 3) THEN PasswordResult(500, "find_one raised", r.sessions, U)
        ELSE IF UsersByEmail(U, sub) = {} THEN PasswordResult(404, "User not found", r.sessions, U)
        ELSE IF \E u \in UsersByEmail(U, sub) : ~verify_password(old_password, U[u].password)
        THEN PasswordResult(400, "Incorrect password", r.sessions, U)
        ELSE IF Raises(failAt, 4) THEN PasswordResult(500, "update_one raised", r.sessions, U)
        ELSE PasswordResult(200, "Password changed successfully", r.sessions,
                            SetPassword(U, sub, get_password_hash(new_password)))

\* reset_password(token, user_data): email is what verify_password_reset_token
\* returned for the token, "" standing for None; store call 1 is
\* users.find_one({"email": email}), call 2 users.update_one.
reset_password(email, new_password, S, U, failAt) ==
    IF email = "" THEN PasswordResult(400, "Invalid or expired token", S, U)
    ELSE IF Raises(failAt, 1) THEN PasswordResult(500, "find_one raised", S, U)
    ELSE IF UsersByEmail(U, email) = {} THEN PasswordResult(404, "User not found", S, U)
    ELSE IF Raises(failAt, 2) THEN PasswordResult(500, "update_one raised", S, U)
    ELSE PasswordResult(200, "Password set successfully", S,
                        SetPassword(U, email, get_password_hash(new_password)))

\* PUT /pass/users/password
ChangePassword(cookie, old_password, new_password, failAt) ==
    LET r == change_password(cookie, old_password, new_password, sessions, users, now, failAt)
    IN  /\ r.sessions # sessions \/ r.users # users
        /\ sessions' = r.sessions
        /\ users' = r.users
        /\ UNCHANGED <<now, ticks, uuids, issued, created, invalidated, minted,
                       sweeper, storeUp, inflight>>

\* PUT /pass/password/reset
ResetPassword(email, new_password, failAt) ==
    LET r == reset_password(email, new_password, sessions, users, failAt)
    IN  /\ r.users # users
        /\ sessions' = r.sessions
        /\ users' = r.users
        /\ UNCHANGED <<now, ticks, uuids, issued, created, invalidated, minted,
                       sweeper, storeUp, inflight>>

\* The emails verify_password_reset_token may return, and "" for None
ResetEmails == {Email(u) : u \in Users} \cup {""}

NextPasswords ==
    \/ Next
    \/ \E cookie \in Presentable, old \in Passwords, new \in Passwords, failAt \in 0..4 :
          ChangePassword(cookie, old, new, failAt)
    \/ \E email \in ResetEmails, new \in Passwords, failAt \in 0..2 :
          ResetPassword(email, new, failAt)

SpecPasswords == Init /\ [][NextPasswords]_vars

\* ------------------------------- create_session_tokens while the clock runs
\* The six readings of a call that starts at tick t while the clock may move on
\* by one tick at any point of the call: they never go back.
RunningReadings(t) ==
    {clock \in [1..6 -> {t, t + 1}] : \A i \in 1..5 : clock[i] <= clock[i + 1]}

\* POST /auth/sessions with the clock read as it runs: the six utcnow() calls of
\* create_session_tokens get the readings clock[1..6], and the request ends at
\* the last of them.
LoginRunning(u, password, clock) ==
    LET r == create_session_tokens(u, users[u].email, sessions, uuids, clock, TRUE)
    IN  /\ UsersByEmail(users, Email(u)) # {}
        /\ verify_password(password, users[u].password)
        /\ users[u].email_verified
        /\ uuids + 2 <= 2 * MaxSessions
        /\ now' = clock[6]
        /\ sessions' = r.sessions
        /\ uuids' = uuids + 2
        /\ issued' = issued \cup r.tokens
        /\ created' = created \cup {CreatedRecord(r, u, users[u].email, clock[1])}
        /\ UNCHANGED <<ticks, users, invalidated, minted, sweeper, storeUp, inflight>>

NextRunning ==
    \/ \E d \in Jumps : Tick(d)
    \/ \E u \in Users : Register(u, 0)
    \/ \E u \in Users : VerifyEmail(u)
    \/ \E u \in Users, pw \in Passwords, clock \in RunningReadings(now) :
          LoginRunning(u, pw, clock)
    \/ \E cookie \in Presentable : Logout(cookie, 0)
    \/ \E deleteOk \in BOOLEAN : Sweep(deleteOk)

SpecRunning == Init /\ [][NextRunning]_vars

\* ------------------------------------------- the sweeper as a loop (main.py)
\* A loop without the except clause: an error of the store ends the task.
SweeperAfterCrash(ok) ==
    IF ok THEN [pc |-> "sleep", interval |-> SWEEP_INTERVAL, failed |-> FALSE]
    ELSE [pc |-> "done", interval |-> 0, failed |-> TRUE]

\* Where the loop stands after delete_many has returned (ok) or raised: in
\* asyncio.sleep(3600) of the try block, or in asyncio.sleep(60) of the handler.
SweeperAfter(ok) ==
    IF ok THEN [pc |-> "sleep", interval |-> SWEEP_INTERVAL, failed |-> FALSE]
    ELSE [pc |-> "sleep", interval |-> SWEEP_RETRY, failed |-> TRUE]

\* One pass of the try block up to the sleep: get_db(), delete_many at the
\* clock's reading; the store answers or raises.
Purge ==
    /\ sweeper.pc = "purge"
    /\ sessions' = IF storeUp THEN delete_many(sessions, now) ELSE sessions
    /\ sweeper' = SweeperAfter(storeUp)
    /\ UNCHANGED <<now, ticks, users, uuids, issued, created, invalidated, minted,
                   storeUp, inflight>>

\* asyncio.sleep(interval) returns and the loop starts over. The clock is
\* bounded in the model, so how far it has moved meanwhile is left to Tick.
Wake ==
    /\ sweeper.pc = "sleep"
    /\ sweeper' = [sweeper EXCEPT !.pc = "purge"]
    /\ UNCHANGED <<now, ticks, users, sessions, uuids, issued, created, invalidated, minted,
                   storeUp, inflight>>

\* The store stops answering, or answers again
StoreFails ==
    /\ storeUp
    /\ storeUp' = FALSE
    /\ UNCHANGED <<now, ticks, users, sessions, uuids, issued, created, invalidated, minted,
                   sweeper, inflight>>

StoreRecovers ==
    /\ ~storeUp
    /\ storeUp' = TRUE
    /\ UNCHANGED <<now, ticks, users, sessions, uuids, issued, created, invalidated, minted,
                   sweeper, inflight>>

NextSweeper ==
    \/ \E d \in Jumps : Tick(d)
    \/ \E u \in Users : Register(u, 0)
    \/ \E u \in Users : VerifyEmail(u)
    \/ \E u \in Users, pw \in Passwords : Login(u, pw, 0)
    \/ Purge
    \/ Wake
    \/ StoreFails
    \/ StoreRecovers

\* The event loop runs the task whenever it is not sleeping, and every sleep returns.
SpecSweeper == Init /\ [][NextSweeper]_vars /\ WF_vars(Purge) /\ WF_vars(Wake)

\* ------------------------- the refresh route, one store call at a time
\* refresh_token up to its first store call: the cookie is there, it decodes
\* and is of kind refresh (otherwise the request ends before any store call).
RefreshBegin(cookie) ==
    /\ inflight.pc \in {"idle", "done"}
    /\ Len(minted) < MaxRefreshes
    /\ cookie # NoToken
    /\ jwt_decode(cookie, now).ok
    /\ Get(cookie.payload, "type") = "refresh"
    /\ inflight' = [pc |-> "find", cookie |-> cookie, status |-> 0, raced |-> FALSE]
    /\ UNCHANGED <<now, ticks, users, sessions, uuids, issued, created, invalidated, minted,
                   sweeper, storeUp>>

\* The request has ended with HTTPException(401, "Invalid refresh token")
Refused401 == [inflight EXCEPT !.pc = "done", !.status = 401]

\* verify_token's db.sessions.find_one
RefreshFind(ok) ==
    /\ inflight.pc = "find"
    /\ inflight' = IF ok /\ find_one(sessions, Get(inflight.cookie.payload, "invalidate_id")) # {}
                   THEN [inflight EXCEPT !.pc = "touch"]
                   ELSE Refused401
    /\ UNCHANGED <<now, ticks, users, sessions, uuids, issued, created, invalidated, minted,
                   sweeper, storeUp>>

\* verify_token's db.sessions.update_one
RefreshTouch(ok) ==
    /\ inflight.pc = "touch"
    /\ sessions' = IF ok THEN update_one(sessions, Get(inflight.cookie.payload, "invalidate_id"), now) ELSE sessions
    /\ inflight' = IF ok THEN [inflight EXCEPT !.pc = "user"] ELSE Refused401
    /\ UNCHANGED <<now, ticks, users, uuids, issued, created, invalidated, minted,
                   sweeper, storeUp>>

\* db.users.find_one, jwt.encode at the clock's reading, set_auth_cookies.
\* raced records that the session was invalidated since find_one found it.
RefreshResolve(ok) ==
    LET user_id      == inflight.cookie.payload.user_id
        access_token == jwt_encode(RefreshedClaims(user_id, users[user_id].email, now,
                                                   Get(inflight.cookie.payload, "invalidate_id")),
                                   JWT_SECRET)
        found        == ok /\ users[user_id].exists
    IN  /\ inflight.pc = "user"
        /\ inflight' = IF found
                       THEN [inflight EXCEPT !.pc = "done", !.status = 200,
                                             !.raced = Get(inflight.cookie.payload, "invalidate_id") \in invalidated]
                       ELSE Refused401
        /\ issued' = IF found THEN issued \cup {access_token, inflight.cookie} ELSE issued
        /\ minted' = IF found
                     THEN Append(minted, [refresh |-> inflight.cookie, at |-> now,
                                          access |-> access_token])
                     ELSE minted
        /\ UNCHANGED <<now, ticks, users, sessions, uuids, created, invalidated,
                       sweeper, storeUp>>

NextRace ==
    \/ \E d \in Jumps : Tick(d)
    \/ \E u \in Users : Register(u, 0)
    \/ \E u \in Users : VerifyEmail(u)
    \/ \E u \in Users, pw \in Passwords : Login(u, pw, 0)
    \/ \E cookie \in Presentable : Logout(cookie, 0)
    \/ \E cookie \in Presentable : RefreshBegin(cookie)
    \/ \E ok \in BOOLEAN : RefreshFind(ok)
    \/ \E ok \in BOOLEAN : RefreshTouch(ok)
    \/ \E ok \in BOOLEAN : RefreshResolve(ok)

SpecRace == Init /\ [][NextRace]_vars

\* --------------------- verify_token, one store call at a time, and the sweeper
\* verify_token(cookie, kind) up to its first store call: the token decodes
\* and is of the kind expected (otherwise the call ends before any store call).
VerifyBegin(cookie, kind) ==
    /\ inflight.pc \in {"idle", "done"}
    /\ cookie # NoToken
    /\ jwt_decode(cookie, now).ok
    /\ Get(cookie.payload, "type") = kind
    /\ inflight' = [pc |-> "vfind", cookie |-> cookie, status |-> 0, raced |-> FALSE]
    /\ UNCHANGED <<now, ticks, users, sessions, uuids, issued, created, invalidated, minted,
                   sweeper, storeUp>>

\* db.sessions.find_one: without a document, HTTPException(401, "Invalid session")
VerifyFind ==
    /\ inflight.pc = "vfind"
    /\ inflight' = IF find_one(sessions, Get(inflight.cookie.payload, "invalidate_id")) # {}
                   THEN [inflight EXCEPT !.pc = "vtouch"]
                   ELSE Refused401
    /\ UNCHANGED <<now, ticks, users, sessions, uuids, issued, created, invalidated, minted,
                   sweeper, storeUp>>

\* db.sessions.update_one and return payload. raced records that the document
\* was deleted since find_one found it.
VerifyTouch ==
    LET id == Get(inflight.cookie.payload, "invalidate_id")
    IN  /\ inflight.pc = "vtouch"
        /\ sessions' = update_one(sessions, id, now)
        /\ inflight' = [inflight EXCEPT !.pc = "done", !.status = 200,
                                        !.raced = find_one(sessions, id) = {}]
        /\ UNCHANGED <<now, ticks, users, uuids, issued, created, invalidated, minted,
                       sweeper, storeUp>>

NextSweepRace ==
    \/ \E d \in Jumps : Tick(d)
    \/ \E u \in Users : Register(u, 0)
    \/ \E u \in Users : VerifyEmail(u)
    \/ \E u \in Users, pw \in Passwords : Login(u, pw, 0)
    \/ \E cookie \in Presentable : Refresh(cookie, 0)
    \/ \E cookie \in Presentable : Logout(cookie, 0)
    \/ \E cookie \in Presentable, kind \in {"access", "refresh"} : VerifyBegin(cookie, kind)
    \/ VerifyFind
    \/ VerifyTouch
    \/ \E deleteOk \in BOOLEAN : Sweep(deleteOk)

SpecSweepRace == Init /\ [][NextSweepRace]_vars

\* ------------------------------------------------------------- claims
TokenKinds == {"access", "refresh"}
\* The tokens that carry an invalidation id: the issued ones and their forgeries
Carriers == issued \cup {Forge(tk) : tk \in issued}
IdOf(token) == token.payload.invalidate_id
Count(S, id) == Cardinality(Matching(S, id))
\* The signature is the server's and the token's own expiry has not elapsed
Unexpired(token) == jwt_decode(token, now).ok

\* C1: once invalidate_session(id) has returned, verify_token never again
\* returns a payload for a token carrying id, as kind access or as kind refresh,
\* whatever the store calls do: it raises 401 whenever find_one returns, with
\* "Invalid session" for a token of that kind that is signed and unexpired;
\* get_current_user and the refresh route answer 401.
C1_InvalidatedNeverVerifies ==
    \A token \in Carriers : IdOf(token) \in invalidated =>
        /\ \A kind \in TokenKinds, findOk \in BOOLEAN, updateOk \in BOOLEAN :
              LET v == verify_token(token, kind, sessions, now, findOk, updateOk)
              IN  /\ v.status # 200
                  /\ findOk => v.status = 401
                  /\ (findOk /\ Unexpired(token) /\ token.payload.type = kind)
                        => v.detail = "Invalid session"
        /\ get_current_user(token, sessions, now, TRUE, TRUE).status = 401
        /\ \A failAt \in 0..3 : refresh_token(token, sessions, users, now, failAt).status = 401

\* An issued token that is still unexpired, of a session that was invalidated,
\* and that verify_token refuses for the session alone.
C1_Witness ==
    \E token \in issued :
        /\ IdOf(token) \in invalidated
        /\ Unexpired(token)
        /\ verify_token(token, token.payload.type, sessions, now, TRUE, TRUE).detail = "Invalid session"

\* The access token that the create_session_tokens call of history record c returned
AccessOf(c) == {tk \in issued : "jti" \in DOMAIN tk.payload /\ IdOf(tk) = c.invalidate_id}
RefreshOf(c) == {tk \in issued : tk.payload.type = "refresh" /\ IdOf(tk) = c.invalidate_id}

\* C2: the logout scenario. For a session created for subject s, get_current_user
\* on its unexpired access token returns s as long as no logout has invalidated
\* the session; a logout request presenting that token succeeds and invalidates
\* the session, and get_current_user on the same token, still unexpired, answers
\* 401 right after it and in every later state.
C2_LogoutScenario ==
    \A c \in created : \A tk \in AccessOf(c) : Unexpired(tk) =>
        LET before == get_current_user(tk, sessions, now, TRUE, TRUE)
            out    == logout(tk, sessions, now, 0)
            after  == get_current_user(tk, out.sessions, now, TRUE, TRUE)
        IN  /\ c.invalidate_id \notin invalidated
                => before.status = 200 /\ Get(before.payload, "sub") = c.email
            /\ out.status = 200 /\ out.done = {c.invalidate_id}
            /\ after.status = 401
            /\ c.invalidate_id \in invalidated => before.status = 401

\* The access token of a created session, unexpired, after the logout of its session
C2_Witness ==
    \E c \in created : \E tk \in AccessOf(c) :
        /\ Unexpired(tk)
        /\ c.invalidate_id \in invalidated
        /\ c.email = Email("u1")
        /\ get_current_user(tk, sessions, now, TRUE, TRUE).status = 401

\* C3: for every session create_session_tokens(user_id, email) created,
\* get_current_user on its access token returns exactly that email in every
\* state in which less than ACCESS_TTL whole seconds have passed since the
\* creation, the session document exists and the store calls return; and the
\* protected route answers 200.
C3_AuthenticateReturnsSubject ==
    \A c \in created :
        /\ AccessOf(c) # {}
        /\ \A tk \in AccessOf(c) :
              (Secs(now) < Secs(c.at) + ACCESS_TTL /\ find_one(sessions, c.invalidate_id) # {}) =>
                  LET r == get_current_user(tk, sessions, now, TRUE, TRUE)
                  IN  /\ r.status = 200
                      /\ Get(r.payload, "sub") = c.email
                      /\ get_user_info(tk, sessions, users, now, 0).status = 200

\* A session whose access token returns the email after the clock has advanced,
\* a refresh has minted another token and another session was logged out
C3_Witness ==
    \E c \in created : \E tk \in AccessOf(c) :
        /\ now > c.at
        /\ Len(minted) > 0
        /\ \E d \in created : d.invalidate_id # c.invalidate_id /\ d.invalidate_id \in invalidated
        /\ Get(get_current_user(tk, sessions, now, TRUE, TRUE).payload, "sub") = c.email

\* C4: a session past its expires_at is never live for a verifying caller:
\* whenever the clock is past the expires_at the session was created with,
\* get_current_user and the refresh route refuse every issued token carrying
\* its id, whether the sweeper has removed the document or not.
C4_ExpiredSessionNeverLive ==
    \A c \in created : \A token \in issued :
        (IdOf(token) = c.invalidate_id /\ now > c.expires_at) =>
            /\ get_current_user(token, sessions, now, TRUE, TRUE).status # 200
            /\ refresh_token(token, sessions, users, now, 0).status # 200

\* The half of C4 that the code keeps: past expires_at the refresh route refuses
\* every token of the session (the refresh token's own exp has elapsed by then).
C4_RefreshHalf ==
    \A c \in created : \A token \in issued :
        (IdOf(token) = c.invalidate_id /\ now > c.expires_at) =>
            refresh_token(token, sessions, users, now, 0).status # 200

\* The tokens minted by the refresh route: they carry no jti
MintedBy(c) == {tk \in issued : tk.payload.type = "access" /\ "jti" \notin DOMAIN tk.payload
                                   /\ IdOf(tk) = c.invalidate_id}

\* C5 as stated: for every issued token whose own expiry has not elapsed and
\* whose session no logout has invalidated, exactly one session document
\* carries the token's invalidate_id.
C5_ExactlyOneRecord ==
    \A token \in issued :
        (Unexpired(token) /\ IdOf(token) \notin invalidated) =>
            Count(sessions, IdOf(token)) = 1

\* C5 amended: no invalidate_id is ever carried by two documents; a token
\* issued by create_session_tokens that is unexpired and not invalidated by a
\* logout has exactly one document; an access token minted by the refresh route
\* has exactly one as long as, in addition, the clock is not past the
\* session's expires_at (afterwards the sweeper may have deleted it).
C5_ExactlyOneRecordUntilExpiry ==
    /\ \A id \in 0..uuids : Count(sessions, id) <= 1
    /\ \A token \in issued : Count(sessions, IdOf(token)) <= 1
    /\ \A c \in created : c.invalidate_id \notin invalidated =>
          /\ \A token \in AccessOf(c) \cup RefreshOf(c) :
                Unexpired(token) => Count(sessions, c.invalidate_id) = 1
          /\ \A token \in MintedBy(c) :
                (Unexpired(token) /\ now <= c.expires_at)
                    => Count(sessions, c.invalidate_id) = 1
          /\ now <= c.expires_at => Count(sessions, c.invalidate_id) = 1

\* Every kind of token of one session is unexpired with its document in place,
\* after a refresh and while another session has been swept or logged out
C5_Witness ==
    \E c \in created :
        /\ c.invalidate_id \notin invalidated
        /\ now <= c.expires_at
        /\ \E token \in MintedBy(c) : Unexpired(token)
        /\ \E token \in RefreshOf(c) : Unexpired(token)
        /\ Count(sessions, c.invalidate_id) = 1
        /\ \E d \in created : Count(sessions, d.invalidate_id) = 0

\* The invalidation ids drawn so far by create_session_tokens calls: each call
\* draws two uuids, the first for invalidate_id
DrawnIds == {uuid4(n) : n \in {m \in 1..uuids : m % 2 = 1}}
TokensOf(T, id, kind) == {tk \in T : tk.payload.type = kind /\ IdOf(tk) = id}

\* C6: create_session_tokens is all or nothing. A call whose insert_one returns
\* gives one access and one refresh token with the fresh id and stores exactly
\* one document with that id, leaving the other documents alone; a call whose
\* insert_one raises fails, gives no token and stores nothing. So in every
\* state each id drawn by a call has either both tokens issued and was stored
\* once, or no token at all and no document.
C6_CreateIsAtomic ==
    /\ \A u \in Users, insertOk \in BOOLEAN :
          LET id == uuid4(uuids + 1)
              r  == create_session_tokens(u, Email(u), sessions, uuids, Readings(now), insertOk)
          IN  /\ insertOk =>
                    /\ r.status = 200
                    /\ Cardinality(r.tokens) = 2
                    /\ Cardinality(TokensOf(r.tokens, id, "access")) = 1
                    /\ Cardinality(TokensOf(r.tokens, id, "refresh")) = 1
                    /\ Count(r.sessions, id) = 1
                    /\ SubSeq(r.sessions, 1, Len(sessions)) = sessions
                    /\ Len(r.sessions) = Len(sessions) + 1
              /\ ~insertOk =>
                    /\ r.status # 200
                    /\ r.tokens = {}
                    /\ r.sessions = sessions
                    /\ Count(r.sessions, id) = 0
    /\ \A id \in DrawnIds :
          IF \E c \in created : c.invalidate_id = id
          THEN /\ Cardinality({tk \in TokensOf(issued, id, "access") : "jti" \in DOMAIN tk.payload}) = 1
               /\ Cardinality(TokensOf(issued, id, "refresh")) = 1
               /\ Count(sessions, id) <= 1
               /\ (id \notin invalidated /\ \A c \in created : c.invalidate_id = id => now <= c.expires_at)
                     => Count(sessions, id) = 1
          ELSE /\ \A tk \in issued : IdOf(tk) # id
               /\ Count(sessions, id) = 0
    /\ \A tk \in issued : IdOf(tk) \in DrawnIds

\* One call has failed at insert_one and another has returned its tokens
C6_Witness ==
    /\ \E id \in DrawnIds : \A c \in created : c.invalidate_id # id
    /\ \E c \in created : Count(sessions, c.invalidate_id) = 1 /\ AccessOf(c) # {} /\ RefreshOf(c) # {}

CreatedIds == {c.invalidate_id : c \in created}
Exp(token) == token.payload.exp

\* C7: a successful refresh mints an access token with the invalidate_id of the
\* refresh token presented, which is an id chosen by create_session_tokens; no
\* issued token ever carries an id that create_session_tokens did not choose.
C7_RefreshKeepsInvalidateId ==
    /\ \A i \in 1..Len(minted) :
          /\ IdOf(minted[i].access) = IdOf(minted[i].refresh)
          /\ IdOf(minted[i].access) \in CreatedIds
          /\ minted[i].access \in issued
    /\ \A cookie \in Presentable, failAt \in 0..3 :
          LET r == refresh_token(cookie, sessions, users, now, failAt)
          IN  r.status = 200 =>
                  /\ r.payload.invalidate_id = IdOf(cookie)
                  /\ \A tk \in r.tokens : IdOf(tk) = IdOf(cookie)
                  /\ IdOf(cookie) \in CreatedIds
    /\ \A tk \in issued : IdOf(tk) \in CreatedIds

\* A refresh has succeeded while two sessions exist
C7_Witness ==
    /\ Len(minted) >= 1
    /\ Cardinality(CreatedIds) = 2
    /\ \E i \in 1..Len(minted) : minted[i].access.payload.type = "access"

\* C8 as stated: two successive successful refreshes with the same refresh
\* token give access tokens with distinct exp.
C8_SuccessiveRefreshesDiffer ==
    \A i \in 1..Len(minted), j \in 1..Len(minted) :
        (i < j /\ minted[i].refresh = minted[j].refresh)
            => Exp(minted[i].access) # Exp(minted[j].access)

\* C8 amended: the exp of the token minted by a refresh is the whole second of
\* that refresh plus 3600; for two successive refreshes with the same refresh
\* token the later exp is never the smaller, and the two differ exactly when
\* the refreshes fall in different clock seconds.
C8_FreshHourInWholeSeconds ==
    /\ \A i \in 1..Len(minted) : Exp(minted[i].access) = Secs(minted[i].at) + ACCESS_TTL
    /\ \A i \in 1..Len(minted), j \in 1..Len(minted) :
          (i < j /\ minted[i].refresh = minted[j].refresh) =>
              /\ Exp(minted[i].access) <= Exp(minted[j].access)
              /\ (Exp(minted[i].access) # Exp(minted[j].access))
                    <=> (Secs(minted[i].at) # Secs(minted[j].at))

\* Two refreshes with the same refresh token in different seconds, with
\* different exp
C8_Witness ==
    /\ Len(minted) = 2
    /\ minted[1].refresh = minted[2].refresh
    /\ Secs(minted[1].at) # Secs(minted[2].at)
    /\ Exp(minted[1].access) < Exp(minted[2].access)

\* The document d with last_used left out
Untouched(d) == [f \in DOMAIN d \ {"last_used"} |-> d[f]]
SameButLastUsed(S, T) ==
    /\ Len(S) = Len(T)
    /\ \A k \in 1..Len(S) : Untouched(S[k]) = Untouched(T[k])
RefreshTokens(T) == {tk \in T : tk.payload.type = "refresh"}

\* C9: the refresh route creates no session document and neither consumes nor
\* rotates the refresh token. Whatever cookie is presented and whichever store
\* call fails, the documents after the call are those before it, last_used
\* apart; a successful call hands back the refresh token it was given and no
\* other; the refresh tokens issued are those of create_session_tokens, one per
\* session; and a refresh token that has been used, once or twice, is accepted
\* again as long as it is unexpired and its document exists.
C9_RefreshLeavesSessionAndToken ==
    /\ \A cookie \in Presentable, failAt \in 0..3 :
          LET r == refresh_token(cookie, sessions, users, now, failAt)
          IN  /\ SameButLastUsed(sessions, r.sessions)
              /\ r.status = 200 =>
                    /\ RefreshTokens(r.tokens) = {cookie}
                    /\ Cardinality(r.tokens) = 2
                    /\ SameButLastUsed(sessions,
                           refresh_token(cookie, r.sessions, users, now, 0).sessions)
                    /\ refresh_token(cookie, r.sessions, users, now, 0).status = 200
    /\ Cardinality(RefreshTokens(issued)) = Cardinality(created)
    /\ \A i \in 1..Len(minted) :
          /\ minted[i].refresh \in RefreshTokens(issued)
          /\ (Unexpired(minted[i].refresh) /\ find_one(sessions, IdOf(minted[i].refresh)) # {})
                => refresh_token(minted[i].refresh, sessions, users, now, 0).status = 200
    /\ Len(sessions) <= Cardinality(created)

\* The same refresh token has been used twice, is unexpired, and its document
\* is there
C9_Witness ==
    /\ Len(minted) = 2
    /\ minted[1].refresh = minted[2].refresh
    /\ Unexpired(minted[2].refresh)
    /\ find_one(sessions, IdOf(minted[2].refresh)) # {}
    /\ minted[1].at < minted[2].at

\* C10: invalidate_session is idempotent. For every id, one that never existed
\* or whose document was swept or deleted included, a second call leaves the
\* collection as the first left it, with no document of that id; a call for an
\* id without a document changes nothing; and a logout repeated with the token
\* of an invalidated session answers 200 again and changes nothing.
C10_InvalidateIsIdempotent ==
    /\ \A id \in 0..(uuids + 1) :
          LET once  == invalidate_session(sessions, id)
              twice == invalidate_session(once, id)
          IN  /\ twice = once
              /\ Count(once, id) = 0
              /\ Count(sessions, id) = 0 => once = sessions
              /\ \A other \in 0..(uuids + 1) : other # id => Count(once, other) = Count(sessions, other)
    /\ \A token \in issued : (IdOf(token) \in invalidated /\ Unexpired(token)) =>
          LET again == logout(token, sessions, now, 0)
          IN  again.status = 200 /\ again.sessions = sessions /\ again.done = {IdOf(token)}

\* A session has been invalidated by a logout, its token is still unexpired,
\* and another document is stored
C10_Witness ==
    /\ invalidated # {}
    /\ sessions # <<>>
    /\ \E token \in issued : IdOf(token) \in invalidated /\ Unexpired(token)

\* C11: logout never fails its caller. Whatever cookie is presented (none, a
\* string that is no token, a forged, expired or valid token, the token of a
\* deleted session) and whether delete_one returns or raises, logout answers
\* 200 and has cleared both cookies.
C11_LogoutNeverFails ==
    \A cookie \in Presentable, failAt \in 0..1 :
        LET r == logout(cookie, sessions, now, failAt)
        IN  r.status = 200 /\ r.cleared

\* C12: a failing update of last_used does not block authentication. For an
\* issued token that decodes, is of the expected kind and whose document
\* find_one returns, verify_token returns the payload although update_one
\* raises.
C12_TouchFailureDoesNotBlock ==
    \A token \in issued, kind \in TokenKinds :
        (Unexpired(token) /\ token.payload.type = kind /\ find_one(sessions, IdOf(token)) # {}) =>
            LET v == verify_token(token, kind, sessions, now, TRUE, FALSE)
            IN  v.status = 200 /\ v.payload = token.payload

\* What the caller of a request sees of its outcome
Outcome(r) == <<r.status, r.detail>>

\* C13: authentication failures are indistinguishable. Any two cookies that
\* get_current_user refuses (expired, forged or unparseable, of the wrong
\* kind, or of an absent session) are refused with the same status and detail.
C13_FailuresIndistinguishable ==
    \A c1 \in Presentable \ {NoToken}, c2 \in Presentable \ {NoToken} :
        LET r1 == get_current_user(c1, sessions, now, TRUE, TRUE)
            r2 == get_current_user(c2, sessions, now, TRUE, TRUE)
        IN  (r1.status # 200 /\ r2.status # 200) => Outcome(r1) = Outcome(r2)

\* C14: on the refresh route a store failure is told apart from an invalid
\* refresh token. For a refresh token that is unexpired with its document in
\* place, a raising find_one (call 1) or users find_one (call 3) gives an
\* outcome other than the one an unparseable or forged refresh token gets.
C14_RefreshStoreFailureDistinct ==
    \A cookie \in RefreshTokens(issued), failAt \in {1, 3} :
        (Unexpired(cookie) /\ find_one(sessions, IdOf(cookie)) # {}) =>
            /\ Outcome(refresh_token(cookie, sessions, users, now, failAt))
                  # Outcome(refresh_token(Garbage, sessions, users, now, 0))
            /\ Outcome(refresh_token(cookie, sessions, users, now, failAt))
                  # Outcome(refresh_token(Forge(cookie), sessions, users, now, 0))

\* C16: token kinds are not interchangeable. verify_token refuses with 401,
\* touching nothing, every issued token whose type claim differs from the kind
\* expected, whatever the store calls do, with "Invalid token type" while the
\* token is unexpired; get_current_user refuses every refresh token and the
\* refresh route every access token, also while their document is stored.
C16_KindsNotInterchangeable ==
    \A token \in issued :
        /\ \A kind \in TokenKinds \ {token.payload.type}, findOk \in BOOLEAN, updateOk \in BOOLEAN :
              LET v == verify_token(token, kind, sessions, now, findOk, updateOk)
              IN  /\ v.status = 401
                  /\ v.sessions = sessions
                  /\ Unexpired(token) => v.detail = "Invalid token type"
        /\ token.payload.type = "refresh" =>
              get_current_user(token, sessions, now, TRUE, TRUE).status = 401
        /\ token.payload.type = "access" =>
              \A failAt \in 0..3 :
                  LET r == refresh_token(token, sessions, users, now, failAt)
                  IN  r.status = 401 /\ r.sessions = sessions

\* Both tokens of a session are unexpired and its document is stored
C16_Witness ==
    \E c \in created :
        /\ find_one(sessions, c.invalidate_id) # {}
        /\ \E a \in AccessOf(c) : Unexpired(a) /\ get_current_user(a, sessions, now, TRUE, TRUE).status = 200
        /\ \E r \in RefreshOf(c) : Unexpired(r) /\ refresh_token(r, sessions, users, now, 0).status = 200

\* Tokens signed with another secret: the issued tokens re-signed, and tokens
\* with claims of the signer's choice (any id drawn so far or not, either
\* kind, an expiry far ahead)
Forged ==
    {Forge(tk) : tk \in issued}
        \cup {jwt_encode(RefreshClaims(u, now + Seconds(REFRESH_TTL), id), OtherSecret) :
                  u \in Users, id \in 0..(uuids + 1)}
        \cup {jwt_encode(RefreshedClaims(u, Email(u), now, id), OtherSecret) :
                  u \in Users, id \in 0..(uuids + 1)}

\* C17: a token signed with another secret is never accepted. verify_token
\* refuses it with 401 "Invalid token" as either kind, whatever its claims and
\* whatever the store calls would do, and leaves the documents as they are; so
\* do get_current_user and the refresh route, and logout deletes nothing for it.
C17_OtherSecretNeverAccepted ==
    \A token \in Forged :
        /\ \A kind \in TokenKinds, findOk \in BOOLEAN, updateOk \in BOOLEAN :
              LET v == verify_token(token, kind, sessions, now, findOk, updateOk)
              IN  v.status = 401 /\ v.detail = "Invalid token" /\ v.sessions = sessions
        /\ get_current_user(token, sessions, now, TRUE, TRUE).status = 401
        /\ \A failAt \in 0..3 :
              LET r == refresh_token(token, sessions, users, now, failAt)
              IN  r.status = 401 /\ r.sessions = sessions
        /\ \A failAt \in 0..1 :
              LET out == logout(token, sessions, now, failAt)
              IN  out.sessions = sessions /\ out.done = {}

\* A forged token carries the id of a stored document and the claims of an
\* issued token that is accepted
C17_Witness ==
    \E tk \in issued :
        /\ tk.payload.type = "access"
        /\ get_current_user(tk, sessions, now, TRUE, TRUE).status = 200
        /\ Forge(tk) \in Forged
        /\ find_one(sessions, IdOf(Forge(tk))) # {}

\* C18: one successful sweep removes every document whose expires_at is
\* earlier than the clock: after delete_many at the current clock no document
\* with the invalidate_id of such a document is left.
C18_SweepRemovesExpired ==
    \A k \in 1..Len(sessions) :
        sessions[k].expires_at < now =>
            /\ Count(delete_many(sessions, now), sessions[k].invalidate_id) = 0
            /\ delete_many(sessions, now) # sessions

\* Two documents past their expires_at are stored
C18_Witness ==
    /\ Len(sessions) = 2
    /\ \A k \in 1..Len(sessions) : sessions[k].expires_at < now

\* The outcomes the refresh route and a protected route give for token errors
TokenErrorOutcomes ==
    {Outcome(refresh_token(c, sessions, users, now, 0)) : c \in {Garbage} \cup Forged}
        \cup {Outcome(get_user_info(c, sessions, users, now, 0)) : c \in {Garbage} \cup Forged}

\* C15: a token that verifies but whose user is no longer in the account store
\* gets an outcome of its own, IdentityNotFound, on the protected route
\* (get_user_info after get_current_user) and on the refresh route: never the
\* outcome of a token error.
C15_IdentityNotFoundDistinct ==
    \A token \in issued :
        /\ (get_current_user(token, sessions, now, TRUE, TRUE).status = 200
                /\ UsersByEmail(users, token.payload.sub) = {}) =>
              LET r == get_user_info(token, sessions, users, now, 0)
              IN  r.status \notin {200, 401} /\ Outcome(r) \notin TokenErrorOutcomes
        /\ (verify_token(token, "refresh", sessions, now, TRUE, TRUE).status = 200
                /\ ~users[token.payload.user_id].exists) =>
              LET r == refresh_token(token, sessions, users, now, 0)
              IN  r.status \notin {200, 401} /\ Outcome(r) \notin TokenErrorOutcomes

\* The half of C15 that the code keeps: the protected route answers 404 "User
\* not found" for a verified token whose user is gone.
C15_ProtectedRouteHalf ==
    \A token \in issued :
        (get_current_user(token, sessions, now, TRUE, TRUE).status = 200
            /\ UsersByEmail(users, token.payload.sub) = {}) =>
                Outcome(get_user_info(token, sessions, users, now, 0)) = <<404, "User not found">>

ExpiredStored(id) == \E k \in 1..Len(sessions) :
                         sessions[k].invalidate_id = id /\ sessions[k].expires_at < now

\* C19: the sweeper loop never ends on a store error. It is always about to
\* purge or asleep; after a purge that raised it sleeps the retry interval (60
\* s), after one that returned the long interval (3600 s), and every sleep is
\* followed by another purge; so if the store from some point on answers,
\* every document past its expires_at is eventually deleted.
C19_SweeperKeepsGoing ==
    /\ [](sweeper.pc \in {"purge", "sleep"})
    /\ [](sweeper.pc = "sleep" =>
             sweeper.interval = IF sweeper.failed THEN SWEEP_RETRY ELSE SWEEP_INTERVAL)
    /\ [][sweeper.pc = "purge" /\ sweeper'.pc # "purge"
             => sweeper'.pc = "sleep" /\ sweeper'.failed = ~storeUp]_vars
    /\ [](sweeper.pc = "sleep" => <>(sweeper.pc = "purge"))
    /\ (<>[]storeUp) =>
           \A id \in 1..(2 * MaxSessions) : [](ExpiredStored(id) => <>(Count(sessions, id) = 0))

\* The loop is about to purge again after a purge that raised and a sleep of
\* the retry interval, the store answers again, and an expired document is stored
C19_Witness ==
    /\ sweeper = [pc |-> "purge", interval |-> SWEEP_RETRY, failed |-> TRUE]
    /\ storeUp
    /\ \E id \in 1..uuids : ExpiredStored(id)

\* C20: the race of a refresh with an invalidation of the same session is
\* safe. However the store calls of the refresh (find_one, update_one, the
\* user lookup) and the logout's delete_one interleave, the refresh ends with
\* 200 or with 401; once the invalidation has returned no document with the id
\* is stored, whether the refresh has finished or not; and every issued token
\* with that id, the one minted by the racing refresh included, is refused
\* with 401 by get_current_user and by the refresh route.
C20_RefreshInvalidateRaceSafe ==
    /\ inflight.pc = "done" => inflight.status \in {200, 401}
    /\ (inflight.pc = "done" /\ inflight.status = 200) =>
          /\ Len(minted) >= 1
          /\ minted[Len(minted)].refresh = inflight.cookie
          /\ minted[Len(minted)].access \in issued
          /\ IdOf(minted[Len(minted)].access) = IdOf(inflight.cookie)
    /\ \A id \in invalidated : Count(sessions, id) = 0
    /\ \A token \in issued : IdOf(token) \in invalidated =>
          /\ get_current_user(token, sessions, now, TRUE, TRUE).status = 401
          /\ refresh_token(token, sessions, users, now, 0).status = 401

\* A refresh found the document, the logout deleted it, and the refresh then
\* went on to mint an access token, which is still unexpired
C20_Witness ==
    /\ inflight.pc = "done"
    /\ inflight.status = 200
    /\ inflight.raced
    /\ Unexpired(minted[Len(minted)].access)
    /\ IdOf(minted[Len(minted)].access) \in invalidated

\* C21: the sweeper races harmlessly with request handling. However a sweep's
\* delete_many, a logout's delete_one and the find_one and update_one of a
\* verify_token interleave, with the store answering every call, verify_token
\* ends by returning the payload or with 401; no invalidate_id is carried by
\* two documents; and a session whose document is gone never has a document
\* again, in particular not by the update_one of a verify_token that had found
\* it before it was deleted.
C21_SweeperRaceHarmless ==
    /\ [](inflight.pc = "done" => inflight.status \in {200, 401})
    /\ [](\A c \in created : Count(sessions, c.invalidate_id) <= 1)
    /\ [](Len(sessions) <= Cardinality(created))
    /\ [][\A c \in created : Count(sessions, c.invalidate_id) = 0
                               => Count(sessions', c.invalidate_id) = 0]_vars

\* A verify_token found the document, the sweeper deleted it, and the
\* update_one then ran without a document to update
C21_Witness ==
    /\ inflight.pc = "done"
    /\ inflight.status = 200
    /\ inflight.raced
    /\ IdOf(inflight.cookie) \notin invalidated
    /\ Count(sessions, IdOf(inflight.cookie)) = 0

\* C22: password login creates a session document and hands out tokens only
\* when the account exists, the password is the account's and the account's
\* email is verified. A login request that changes anything was made for such
\* an account with such a password; when the store answers it stores exactly
\* one new document, of that user, and issues the two tokens of that session;
\* when insert_one raises it stores nothing and issues nothing. In every other
\* case the request changes nothing.
C22_LoginNeedsVerifiedAccount ==
    [][\A u \in Users, pw \in Passwords, failAt \in 0..2 :
          Login(u, pw, failAt) =>
              /\ users[u].exists
              /\ users[u].password = get_password_hash(pw)
              /\ users[u].email_verified
              /\ users' = users
              /\ failAt = 0 =>
                    /\ Len(sessions') = Len(sessions) + 1
                    /\ SubSeq(sessions', 1, Len(sessions)) = sessions
                    /\ sessions'[Len(sessions')].user_id = u
                    /\ Cardinality(issued' \ issued) = 2
                    /\ \A tk \in issued' \ issued :
                          IdOf(tk) = sessions'[Len(sessions')].invalidate_id
              /\ failAt # 0 => sessions' = sessions /\ issued' = issued]_vars

\* A login has succeeded: the account, registered with one session, is
\* verified and has a second session
C22_Witness ==
    /\ users["u1"].email_verified
    /\ Cardinality({c \in created : c.user_id = "u1"}) = 2
    /\ Len(sessions) = 2

\* C23 as stated: logout revokes the whole pair whenever the client presents
\* the session's access token. For every session created and every access
\* token issued for it, signed by the server, expired or not: after a logout
\* request carrying that token, with the store answering, no document carries
\* the session's id and the refresh route refuses the session's refresh token.
C23_LogoutRevokesPair ==
    \A c \in created : \A tk \in AccessOf(c) \cup MintedBy(c) :
        LET r == logout(tk, sessions, now, 0)
        IN  /\ r.status = 200
            /\ Count(r.sessions, c.invalidate_id) = 0
            /\ \A rt \in RefreshOf(c) :
                  refresh_token(rt, r.sessions, users, now, 0).status # 200

\* The half that holds: the same for the access tokens whose own expiry has
\* not elapsed.
C23_UnexpiredHalf ==
    \A c \in created : \A tk \in AccessOf(c) \cup MintedBy(c) :
        Unexpired(tk) =>
            LET r == logout(tk, sessions, now, 0)
            IN  /\ r.status = 200
                /\ Count(r.sessions, c.invalidate_id) = 0
                /\ \A rt \in RefreshOf(c) :
                      refresh_token(rt, r.sessions, users, now, 0).status # 200

\* C24: a successful refresh resolves the user again by the refresh token's
\* user_id and puts the email the user document has at that moment into the
\* new access token as sub, with the same user_id; the access tokens of
\* create_session_tokens carry the email of the time of their creation, and
\* get_current_user goes on returning that email for them, whatever the user
\* document says by now.
C24_RefreshEmbedsCurrentEmail ==
    /\ [](\A rt \in RefreshTokens(issued) :
             LET r == refresh_token(rt, sessions, users, now, 0)
             IN  r.status = 200 =>
                    /\ r.payload.sub = users[rt.payload.user_id].email
                    /\ r.payload.user_id = rt.payload.user_id)
    /\ [][Len(minted') > Len(minted) =>
             LET m == minted'[Len(minted')]
             IN  /\ m.access.payload.sub = users[m.refresh.payload.user_id].email
                 /\ m.access.payload.user_id = m.refresh.payload.user_id]_vars
    /\ [](\A c \in created : \A tk \in AccessOf(c) :
             LET r == get_current_user(tk, sessions, now, TRUE, TRUE)
             IN  r.status = 200 => r.payload.sub = c.email)

\* The email was changed after the session was created; a refresh has since
\* minted a token with the new email, and the access token of the creation,
\* not yet expired, still gives the old one.
C24_Witness ==
    \E c \in created :
        /\ users[c.user_id].exists
        /\ users[c.user_id].email # c.email
        /\ \E tk \in MintedBy(c) : tk.payload.sub = users[c.user_id].email
        /\ \E tk \in AccessOf(c) :
              LET r == get_current_user(tk, sessions, now, TRUE, TRUE)
              IN  r.status = 200 /\ r.payload.sub = c.email

\* C25 as stated: one value of "now" per create_session_tokens call, even if
\* the clock advances while the call runs. For every session created by a call
\* that started at the instant c.at: the access token's iat and nbf are that
\* instant and its exp that instant + 1 hour (in the whole seconds of a JWT),
\* the refresh token's exp is that instant + 30 days, and the document, which
\* no request has touched since, has created_at = last_used = that instant and
\* expires_at = that instant + 30 days.
C25_OneNowPerCall ==
    \A c \in created :
        /\ \A tk \in AccessOf(c) :
              /\ tk.payload.iat = Secs(c.at)
              /\ tk.payload.nbf = Secs(c.at)
              /\ tk.payload.exp = Secs(c.at) + ACCESS_TTL
        /\ \A rt \in RefreshOf(c) : rt.payload.exp = Secs(c.at) + REFRESH_TTL
        /\ \A k \in 1..Len(sessions) :
              sessions[k].invalidate_id = c.invalidate_id =>
                  /\ sessions[k].created_at = c.at
                  /\ sessions[k].last_used = sessions[k].created_at
                  /\ sessions[k].expires_at = c.at + Seconds(REFRESH_TTL)

\* What the code does guarantee, however the clock runs during the call: the
\* document's expires_at is the very value the refresh token's exp was encoded
\* from, and no reading precedes the start of the call.
C25_SharedRefreshExpiry ==
    \A c \in created :
        \A k \in 1..Len(sessions) :
            sessions[k].invalidate_id = c.invalidate_id =>
                /\ \A rt \in RefreshOf(c) : rt.payload.exp = Secs(sessions[k].expires_at)
                /\ sessions[k].created_at >= c.at
                /\ sessions[k].last_used >= sessions[k].created_at

\* C26 as stated: in every reachable state each session document's expires_at
\* equals, as an instant, the exp claim of the refresh token issued with it,
\* which is the creation time + 30 days.
C26_ExpiresAtEqualsRefreshExp ==
    \A c \in created : \A k \in 1..Len(sessions) :
        sessions[k].invalidate_id = c.invalidate_id =>
            /\ \A rt \in RefreshOf(c) : Seconds(rt.payload.exp) = sessions[k].expires_at
            /\ sessions[k].expires_at = sessions[k].created_at + Seconds(REFRESH_TTL)

\* C26, amended: a JWT carries exp in whole seconds. In every reachable state,
\* after any number of verifications and refreshes, each session document's
\* expires_at is the value written at creation, the exp claim of the refresh
\* token issued with it is that value cut to whole seconds, and the value lies
\* 30 days after an instant between the start of the creating call and the
\* document's created_at.
C26_RefreshExpIsExpiresAtInSeconds ==
    \A c \in created : \A k \in 1..Len(sessions) :
        sessions[k].invalidate_id = c.invalidate_id =>
            /\ sessions[k].expires_at = c.expires_at
            /\ \A rt \in RefreshOf(c) : rt.payload.exp = Secs(sessions[k].expires_at)
            /\ c.at + Seconds(REFRESH_TTL) <= sessions[k].expires_at
            /\ sessions[k].expires_at <= sessions[k].created_at + Seconds(REFRESH_TTL)

\* A session created between two whole seconds, verified later and refreshed,
\* with its document stored
C26_Witness ==
    \E c \in created : \E k \in 1..Len(sessions) :
        /\ sessions[k].invalidate_id = c.invalidate_id
        /\ c.at % Res # 0
        /\ sessions[k].last_used > sessions[k].created_at
        /\ MintedBy(c) # {}
        /\ RefreshOf(c) # {}

\* C27: a session document is never updated except for last_used. Every stored
\* document has the invalidate_id, user_id and expires_at written by the
\* create_session_tokens call that made it, a created_at from within that call
\* and not after last_used, and is_active = TRUE; and no
\* step of any request or of the sweeper, failing store calls included, does
\* anything to a stored document but leave it, move its last_used forward, or
\* delete it.
C27_OnlyLastUsedChanges ==
    /\ [](\A k \in 1..Len(sessions) :
             \E c \in created :
                 /\ sessions[k].invalidate_id = c.invalidate_id
                 /\ sessions[k].user_id = c.user_id
                 /\ sessions[k].created_at >= c.at
                 /\ sessions[k].created_at <= sessions[k].last_used
                 /\ sessions[k].expires_at = c.expires_at
                 /\ sessions[k].is_active)
    /\ [][\A k \in 1..Len(sessions) :
             \/ Count(sessions', sessions[k].invalidate_id) = 0
             \/ \E j \in 1..Len(sessions') :
                   /\ Untouched(sessions'[j]) = Untouched(sessions[k])
                   /\ sessions'[j].last_used >= sessions[k].last_used]_vars

\* A session whose document has been touched by a refresh that minted a token,
\* after another session was logged out
C27_Witness ==
    \E c \in created : \E k \in 1..Len(sessions) :
        /\ sessions[k].invalidate_id = c.invalidate_id
        /\ sessions[k].last_used > sessions[k].created_at
        /\ MintedBy(c) # {}
        /\ invalidated # {}
        /\ c.invalidate_id \notin invalidated

\* C28: a sweep deletes only expired documents. In every reachable state a
\* sweep at the current time keeps, at its place among the kept ones and as it
\* is, every document whose expires_at is not earlier than the current time;
\* and a step after which such a document is gone is a logout that invalidated
\* the document's own invalidate_id.
C28_SweepKeepsUnexpired ==
    /\ [](LET kept == delete_many(sessions, now)
          IN  /\ \A k \in 1..Len(sessions) :
                    ~(sessions[k].expires_at < now) =>
                        \E j \in 1..Len(kept) : kept[j] = sessions[k]
              /\ \A j \in 1..Len(kept) : ~(kept[j].expires_at < now)
              /\ Len(kept) = Cardinality({k \in 1..Len(sessions) : ~(sessions[k].expires_at < now)}))
    /\ [][\A k \in 1..Len(sessions) :
             (~(sessions[k].expires_at < now) /\ Count(sessions', sessions[k].invalidate_id) = 0)
                 => /\ sessions[k].invalidate_id \in invalidated'
                    /\ sessions[k].invalidate_id \notin invalidated]_vars

\* A sweep has deleted one session's document, which no logout had
\* invalidated, and has left the other, which expires now or later
C28_Witness ==
    /\ Cardinality(created) = 2
    /\ invalidated = {}
    /\ Len(sessions) = 1
    /\ ~(sessions[1].expires_at < now)

\* C29: sessions are independent units of revocation. In every reachable state,
\* invalidate_session(id) removes at most one document, which carries id, and
\* leaves every other document as it is and where it is among the others; a
\* logout with any cookie, whether delete_one returns or raises, does the same
\* for the id of its token; whatever verify_token answered for a token of
\* another session before, it answers after; and a step after which the
\* document of another id than the one invalidated is gone or altered is no
\* logout.
C29_SessionsRevokedIndependently ==
    /\ [](\A id \in 0..(uuids + 1) :
             LET T == invalidate_session(sessions, id)
             IN  /\ T = SelectSeq(sessions, LAMBDA d : d.invalidate_id # id)
                 /\ Len(T) >= Len(sessions) - 1
                 /\ \A tk \in issued, kind \in TokenKinds :
                       IdOf(tk) # id =>
                           verify_token(tk, kind, T, now, TRUE, TRUE).status
                               = verify_token(tk, kind, sessions, now, TRUE, TRUE).status)
    /\ [](\A cookie \in Presentable, failAt \in 0..1 :
             LET r == logout(cookie, sessions, now, failAt)
             IN  /\ Len(r.sessions) >= Len(sessions) - 1
                 /\ \A k \in 1..Len(sessions) :
                       sessions[k].invalidate_id \notin r.done =>
                           \E j \in 1..Len(r.sessions) : r.sessions[j] = sessions[k])
    /\ [][invalidated' # invalidated =>
             sessions' = SelectSeq(sessions, LAMBDA d : d.invalidate_id \notin invalidated')]_vars

\* Of two sessions of the same user one has been logged out; the document of
\* the other is stored and both of its tokens are accepted
C29_Witness ==
    \E c \in created, gone \in created :
        /\ c.user_id = gone.user_id
        /\ gone.invalidate_id \in invalidated
        /\ c.invalidate_id \notin invalidated
        /\ Count(sessions, c.invalidate_id) = 1
        /\ \E tk \in AccessOf(c) : verify_token(tk, "access", sessions, now, TRUE, TRUE).status = 200
        /\ \E rt \in RefreshOf(c) : verify_token(rt, "refresh", sessions, now, TRUE, TRUE).status = 200

\* What verify_token answers for every issued token, as either kind, on the
\* collection S
Acceptance(S) ==
    [tk \in issued |-> [kind \in TokenKinds |-> verify_token(tk, kind, S, now, TRUE, TRUE).status]]

\* C30: changing or resetting a password leaves the session documents alone.
\* In every reachable state, for every request to change_password (any cookie,
\* any old and new password, each store call raising or not) and to
\* reset_password (any token outcome, any new password), successful or not: no
\* document is added or removed and none changes, but for the last_used that
\* get_current_user stamps on the session of change_password's own cookie;
\* every token is answered by verify_token as before, and the refresh route
\* and a protected route accept afterwards every token of the user they
\* accepted before. And a step that changes a stored password changes no
\* document but in last_used.
C30_PasswordChangeKeepsSessions ==
    /\ [](LET changes == {change_password(cookie, old, new, sessions, users, now, failAt) :
                             cookie \in Presentable, old \in Passwords, new \in Passwords,
                             failAt \in 0..4}
              resets  == {reset_password(email, new, sessions, users, failAt) :
                             email \in ResetEmails, new \in Passwords, failAt \in 0..2}
          IN  /\ \A r \in resets : r.sessions = sessions
              /\ \A r \in changes \cup resets :
                    /\ SameButLastUsed(sessions, r.sessions)
                    /\ Acceptance(r.sessions) = Acceptance(sessions)
                    /\ \A tk \in issued :
                          /\ refresh_token(tk, sessions, users, now, 0).status = 200
                                => refresh_token(tk, r.sessions, r.users, now, 0).status = 200
                          /\ get_user_info(tk, sessions, users, now, 0).status = 200
                                => get_user_info(tk, r.sessions, r.users, now, 0).status = 200)
    /\ [][(\E u \in Users : users'[u].password # users[u].password /\ users[u].exists)
             => /\ SameButLastUsed(sessions, sessions')
                /\ issued' = issued]_vars

\* The password of a user with two sessions has been changed; both documents
\* are stored and the tokens of both sessions are still accepted
C30_Witness ==
    /\ \E u \in Users : users[u].exists /\ users[u].password = get_password_hash("wrong")
    /\ Len(sessions) = 2
    /\ \A c \in created :
          /\ \E tk \in AccessOf(c) : get_user_info(tk, sessions, users, now, 0).status = 200
          /\ \E rt \in RefreshOf(c) : refresh_token(rt, sessions, users, now, 0).status = 200
=============================================================================
